---- MODULE Spec2Model ----
(***************************************************************************)
(* The bill extraction endpoint of src/main.py: extract_bill_data and the  *)
(* two helpers it calls, download_image and get_gemini_extraction.         *)
(*                                                                         *)
(* Numbers.  A Python float is written as an integer count of eighths      *)
(* (1/8 is a binary fraction, so every value and every sum of the model is *)
(* an exact double): item_amount 50.0 is 400, the default quantity 1.0 is  *)
(* 8.  round(x, 2) yields a count of hundredths.                           *)
(***************************************************************************)
EXTENDS Integers, Sequences, FiniteSets, TLC

\* Requests served in one run, pages of one raw extraction, and items of one
\* raw extraction over all its pages.
NumRequests == 2
MaxPages == 2
MaxItems == 2

Requests == 1..NumRequests

(***************************************************************************)
(* The untyped tree json.loads returns.                                    *)
(***************************************************************************)
JNull == [t |-> "null"]
JInt(i) == [t |-> "int", i |-> i]
JFloat(f) == [t |-> "float", f |-> f]
JStr(s) == [t |-> "str", s |-> s]
JList(l) == [t |-> "list", l |-> l]
JMap(m) == [t |-> "map", m |-> m]

EmptyMap == [k \in {} |-> k]

(***************************************************************************)
(* Outcome of evaluating a Python expression: a value, or a raised         *)
(* exception with its class and its str().                                 *)
(***************************************************************************)
Ok(v) == [ok |-> TRUE, v |-> v]
Raise(class, text) == [ok |-> FALSE, exc |-> [class |-> class, text |-> text]]

\* obj[key] in place of obj.get(key, default)
PyGetStrict(obj, key, default) ==
    IF obj.t = "map"
    THEN IF key \in DOMAIN obj.m THEN Ok(obj.m[key])
         ELSE Raise("KeyError", "'" \o key \o "'")
    ELSE Raise("TypeError", "'" \o obj.t \o "' object is not subscriptable")

\* obj.get(key, default)
PyGet(obj, key, default) ==
    IF obj.t = "map"
    THEN Ok(IF key \in DOMAIN obj.m THEN obj.m[key] ELSE default)
    ELSE Raise("AttributeError", "'" \o obj.t \o "' object has no attribute 'get'")

\* The decimal strings of the model and the floats they denote, in eighths.
FloatLiterals == ("0.125" :> 1) @@ ("0.375" :> 3) @@ ("10" :> 80)

\* float(v)
PyFloat(v) ==
    CASE v.t = "int" -> Ok(8 * v.i)
      [] v.t = "float" -> Ok(v.f)
      [] v.t = "str" ->
            IF v.s \in DOMAIN FloatLiterals
            THEN Ok(FloatLiterals[v.s])
            ELSE Raise("ValueError", "could not convert string to float: '" \o v.s \o "'")
      [] OTHER ->
            Raise("TypeError", "float() argument must be a string or a real number, not '"
                               \o v.t \o "'")

\* str(v), for the values a page_no takes in the model.
PyStr(v) ==
    CASE v.t = "str" -> v.s
      [] v.t = "int" -> ToString(v.i)
      [] v.t = "null" -> "None"
      [] OTHER -> "<" \o v.t \o ">"

\* The characters of the strings of the model that get iterated.
CharsOf == ("" :> <<>>) @@ ("N/A" :> <<"N", "/", "A">>)

\* The keys of a mapping, in insertion order (mappings iterated in the model
\* hold at most one key).
RECURSIVE KeysOf(_)
KeysOf(m) ==
    IF DOMAIN m = {} THEN <<>>
    ELSE LET k == CHOOSE x \in DOMAIN m : TRUE
         IN  <<JStr(k)>> \o KeysOf([x \in DOMAIN m \ {k} |-> m[x]])

\* The sequence a for loop over v visits: iter(v).
PyIter(v) ==
    CASE v.t = "list" -> Ok(v.l)
      [] v.t = "str" -> Ok([i \in 1..Len(CharsOf[v.s]) |-> JStr(CharsOf[v.s][i])])
      [] v.t = "map" -> Ok(KeysOf(v.m))
      [] OTHER -> Raise("TypeError", "'" \o v.t \o "' object is not iterable")

\* round(x, 2) of a float x given in eighths: the nearest count of hundredths
\* of the exact value, a tie going to the even one.
Round2(x) ==
    LET n == 25 * x
        q == n \div 2
    IN  IF n % 2 = 0 THEN q
        ELSE IF q % 2 = 0 THEN q ELSE q + 1

RECURSIVE SumAmounts(_)
\* sum(item.item_amount for item in items)
SumAmounts(items) ==
    IF items = <<>> THEN 0
    ELSE Head(items).item_amount + SumAmounts(Tail(items))

(***************************************************************************)
(* The pydantic models.                                                    *)
(***************************************************************************)
PyNone == [t |-> "None"]
PyText(s) == [t |-> "str", s |-> s]

\* BillItem(item_name=..., item_amount=..., item_rate=..., item_quantity=...):
\* item_name must be a string; the three numbers arrive as floats.
BillItem(name, amount, rate, quantity) ==
    IF name.t = "str"
    THEN Ok([item_name |-> name.s, item_amount |-> amount,
             item_rate |-> rate, item_quantity |-> quantity])
    ELSE Raise("ValidationError", "1 validation error for BillItem")

PageLineItems(page_no, bill_items) ==
    [page_no |-> page_no, bill_items |-> bill_items]

ExtractionData(pages, count, amount) ==
    [t |-> "ExtractionData", pagewise_line_items |-> pages,
     total_item_count |-> count, reconciled_amount |-> amount]

APIResponse(is_success, data, error) ==
    [is_success |-> is_success, data |-> data, error |-> error]

NoResponse == [t |-> "pending"]
NoValue == [t |-> "unset"]

(***************************************************************************)
(* What the outside world can answer.                                      *)
(***************************************************************************)
\* Why requests.get, raise_for_status or Image.open fail.
DownloadFailures ==
    {"404 Client Error: Not Found for url", "Read timed out. (read timeout=10)",
     "cannot identify image file"}

\* The entries of a bill_items list.
ItemChoices ==
    { \* Scenario A: every field present and well typed
      JMap([item_name |-> JStr("Paracetamol"), item_amount |-> JFloat(400),
            item_rate |-> JFloat(200), item_quantity |-> JInt(2)]),
      \* Scenario B: rate and quantity absent
      JMap([item_name |-> JStr("Bandage"), item_amount |-> JInt(10)]),
      \* every field absent
      JMap(EmptyMap),
      \* the amount a decimal string, 1/8
      JMap([item_name |-> JStr("Syringe"), item_amount |-> JStr("0.125"),
            item_rate |-> JFloat(1)]),
      \* one field present and not a number
      JMap([item_name |-> JStr("Gauze"), item_amount |-> JStr("N/A"),
            item_rate |-> JFloat(8), item_quantity |-> JInt(1)]),
      JMap([item_name |-> JStr("Gauze"), item_amount |-> JFloat(8),
            item_rate |-> JNull, item_quantity |-> JInt(1)]),
      JMap([item_name |-> JStr("Gauze"), item_amount |-> JFloat(8),
            item_rate |-> JFloat(8), item_quantity |-> JStr("one")]),
      \* the name null
      JMap([item_name |-> JNull, item_amount |-> JFloat(8)]),
      \* a discount line, -0.375
      JMap([item_name |-> JStr("Discount"), item_amount |-> JFloat(-3),
            item_quantity |-> JFloat(8)]),
      \* an entry that is no mapping
      JStr("Subtotal") }

\* How a raw extraction is cut into pages: per page its kind and, for a page
\* with a bill_items list, the number of entries.
PageShapes(k) ==
    {[kind |-> "items", n |-> k]}
    \cup (IF k = 0
          THEN {[kind |-> "empty", n |-> 0], [kind |-> "null_items", n |-> 0],
                [kind |-> "not_mapping", n |-> 0]}
          ELSE {})

RECURSIVE Layouts(_, _)
\* The sequences of at most p page shapes holding exactly n items.
Layouts(p, n) ==
    (IF n = 0 THEN {<<>>} ELSE {})
    \cup (IF p = 0 THEN {}
          ELSE UNION { { <<d>> \o rest : d \in PageShapes(k),
                                          rest \in Layouts(p - 1, n - k) }
                       : k \in 0..n })

\* One entry of pagewise_line_items.
RawPage(shape, items) ==
    CASE shape.kind = "items" ->
            JMap([page_no |-> JInt(2), bill_items |-> JList(items),
                  total |-> JFloat(7992)])
      [] shape.kind = "empty" -> JMap(EmptyMap)
      [] shape.kind = "null_items" ->
            JMap([page_no |-> JStr("3"), bill_items |-> JNull])
      [] shape.kind = "not_mapping" -> JStr("page")

RECURSIVE RawPages(_, _)
RawPages(layout, items) ==
    IF layout = <<>> THEN <<>>
    ELSE LET d == Head(layout)
         IN  <<RawPage(d, SubSeq(items, 1, d.n))>>
             \o RawPages(Tail(layout), SubSeq(items, d.n + 1, Len(items)))

\* A result tree of the requested shape, with or without a grand total the
\* model read off the document.
RawDocument(layout, items, with_total) ==
    IF with_total
    THEN JMap([pagewise_line_items |-> JList(RawPages(layout, items)),
               total |-> JFloat(7992)])
    ELSE JMap([pagewise_line_items |-> JList(RawPages(layout, items))])

\* Result trees in which pagewise_line_items is absent or is no list, and
\* trees whose root is no mapping.
OddDocuments ==
    { JMap(EmptyMap), JMap([total |-> JFloat(7992)]),
      JMap([pagewise_line_items |-> JNull]),
      JMap([pagewise_line_items |-> JInt(0)]),
      JMap([pagewise_line_items |-> JStr("")]),
      JMap([pagewise_line_items |-> JStr("N/A")]),
      JMap([pagewise_line_items |-> JMap(EmptyMap)]),
      JMap([pagewise_line_items |-> JMap([page_no |-> JStr("1")])]),
      JList(<<>>), JNull }

\* The fixtures of the spec's scenarios A, B and C, and three more.
ScenarioA ==
    JMap([pagewise_line_items |-> JList(<<
        JMap([page_no |-> JStr("1"), bill_items |-> JList(<<
            JMap([item_name |-> JStr("Paracetamol"), item_amount |-> JFloat(400),
                  item_rate |-> JFloat(200), item_quantity |-> JInt(2)]) >>)]) >>)])

ScenarioB ==
    JMap([pagewise_line_items |-> JList(<<
        JMap([page_no |-> JStr("1"), bill_items |-> JList(<<
            JMap([item_name |-> JStr("Bandage"), item_amount |-> JInt(10)]) >>)]) >>)])

ScenarioC ==
    JMap([pagewise_line_items |-> JList(<<
        JMap([page_no |-> JStr("1"), bill_items |-> JList(<<
            JMap([item_name |-> JStr("Bandage"), item_amount |-> JInt(10)]),
            JMap([item_name |-> JStr("Gauze"), item_amount |-> JInt(20)]) >>)]),
        JMap([page_no |-> JStr("2"), bill_items |-> JList(<<
            JMap([item_name |-> JStr("Syringe"), item_amount |-> JFloat(364)]) >>)]) >>)])

ScenarioReplies ==
    { ScenarioA, ScenarioB, ScenarioC,
      JMap(EmptyMap),
      JMap([pagewise_line_items |-> JList(<<
          JMap([page_no |-> JStr("1"), bill_items |-> JList(<<
              JMap([item_name |-> JStr("Bandage"), item_amount |-> JInt(10)]),
              JMap([item_name |-> JStr("Gauze"), item_amount |-> JStr("N/A")]) >>)]) >>)]),
      JMap([pagewise_line_items |-> JNull]) }

VARIABLES pc, image, raw_data, pages_iter, all_items, pagewise_items, response, calls

vars == <<pc, image, raw_data, pages_iter, all_items, pagewise_items, response, calls>>

\* One request is served.
Init ==
    /\ pc = [r \in Requests |-> IF r = 1 THEN "resolve" ELSE "idle"]
    /\ image = [r \in Requests |-> NoValue]
    /\ raw_data = [r \in Requests |-> NoValue]
    /\ pages_iter = [r \in Requests |-> <<>>]
    /\ all_items = [r \in Requests |-> <<>>]
    /\ pagewise_items = [r \in Requests |-> <<>>]
    /\ response = [r \in Requests |-> NoResponse]
    /\ calls = [r \in Requests |-> <<>>]

\* NumRequests requests are served at once.
ConcInit ==
    /\ pc = [r \in Requests |-> "resolve"]
    /\ image = [r \in Requests |-> NoValue]
    /\ raw_data = [r \in Requests |-> NoValue]
    /\ pages_iter = [r \in Requests |-> <<>>]
    /\ all_items = [r \in Requests |-> <<>>]
    /\ pagewise_items = [r \in Requests |-> <<>>]
    /\ response = [r \in Requests |-> NoResponse]
    /\ calls = [r \in Requests |-> <<>>]

\* Only HTTPException is caught: any other exception leaves the handler.
HandleOnlyHTTP(exc) ==
    IF exc.class = "HTTPException"
    THEN APIResponse(FALSE, PyNone, PyText(exc.text))
    ELSE [t |-> "unhandled", exc |-> exc]

\* The two except clauses of extract_bill_data.
Handle(exc) ==
    IF exc.class = "HTTPException"
    THEN APIResponse(FALSE, PyNone, PyText(exc.text))
    ELSE APIResponse(FALSE, PyNone, PyText(exc.text))

\* An exception raised inside the try block ends the request.
Fail(r, exc) ==
    /\ pc' = [pc EXCEPT ![r] = "done"]
    /\ response' = [response EXCEPT ![r] = Handle(exc)]

\* download_image returns the decoded image.
DownloadOk(r) ==
    /\ pc[r] = "resolve"
    /\ calls' = [calls EXCEPT ![r] = Append(@, "resolve")]
    /\ image' = [image EXCEPT ![r] = [t |-> "image"]]
    /\ pc' = [pc EXCEPT ![r] = "extract"]
    /\ UNCHANGED <<raw_data, pages_iter, all_items, pagewise_items, response>>

\* download_image swallows the failure and returns None.
DownloadFailSwallowed(r) ==
    /\ pc[r] = "resolve"
    /\ calls' = [calls EXCEPT ![r] = Append(@, "resolve")]
    /\ pc' = [pc EXCEPT ![r] = "extract"]
    /\ UNCHANGED <<image, raw_data, pages_iter, all_items, pagewise_items, response>>

\* download_image raises HTTPException(400).
DownloadFail(r) ==
    /\ pc[r] = "resolve"
    /\ calls' = [calls EXCEPT ![r] = Append(@, "resolve")]
    /\ \E cause \in DownloadFailures :
          Fail(r, [class |-> "HTTPException",
                   text |-> "Failed to download image: " \o cause])
    /\ UNCHANGED <<image, raw_data, pages_iter, all_items, pagewise_items>>

\* get_gemini_extraction returns the parsed tree raw.
Extracted(r, raw) ==
    /\ calls' = [calls EXCEPT ![r] = Append(@, "extract")]
    /\ raw_data' = [raw_data EXCEPT ![r] = raw]
    /\ pc' = [pc EXCEPT ![r] = "reconcile"]
    /\ UNCHANGED <<image, pages_iter, all_items, pagewise_items, response>>

\* The model answers with any tree within the bounds.
ExtractOk(r) ==
    /\ pc[r] = "extract"
    /\ \/ \E n \in 0..MaxItems :
            \E items \in [1..n -> ItemChoices] :
              \E layout \in Layouts(MaxPages, n) :
                \E with_total \in BOOLEAN :
                  Extracted(r, RawDocument(layout, items, with_total))
       \/ \E raw \in OddDocuments : Extracted(r, raw)

\* The model answers with one of the scenario trees.
ExtractScenario(r) ==
    /\ pc[r] = "extract"
    /\ \E raw \in ScenarioReplies : Extracted(r, raw)

\* The model call or json.loads fails: HTTPException(500).
ExtractFail(r) ==
    /\ pc[r] = "extract"
    /\ calls' = [calls EXCEPT ![r] = Append(@, "extract")]
    /\ Fail(r, [class |-> "HTTPException",
                text |-> "Failed to process image with AI model."])
    /\ UNCHANGED <<image, raw_data, pages_iter, all_items, pagewise_items>>

\* The sanitizing with a default quantity of 0.
SanitizeItemQuantityZero(item) ==
    LET name == PyGet(item, "item_name", JStr("Unknown"))
    IN  IF ~name.ok THEN name
        ELSE
        LET amount == PyFloat(PyGet(item, "item_amount", JInt(0)).v)
        IN  IF ~amount.ok THEN amount
            ELSE
            LET rate == PyFloat(PyGet(item, "item_rate", JInt(0)).v)
            IN  IF ~rate.ok THEN rate
                ELSE
                LET quantity == PyFloat(PyGet(item, "item_quantity", JInt(0)).v)
                IN  IF ~quantity.ok THEN quantity
                    ELSE BillItem(name.v, amount.v, rate.v, quantity.v)

\* The sanitizing of one entry of bill_items.
SanitizeItem(item) ==
    LET name == PyGet(item, "item_name", JStr("Unknown"))
    IN  IF ~name.ok THEN name
        ELSE
        LET amount == PyFloat(PyGet(item, "item_amount", JInt(0)).v)
        IN  IF ~amount.ok THEN amount
            ELSE
            LET rate == PyFloat(PyGet(item, "item_rate", JInt(0)).v)
            IN  IF ~rate.ok THEN rate
                ELSE
                LET quantity == PyFloat(PyGet(item, "item_quantity", JInt(1)).v)
                IN  IF ~quantity.ok THEN quantity
                    ELSE BillItem(name.v, amount.v, rate.v, quantity.v)

RECURSIVE ProcessItems(_, _, _)
\* The inner loop: each entry is sanitized and appended to the page's list
\* and to the flat list, until one raises.
ProcessItems(items, p_items, all) ==
    IF items = <<>> THEN Ok([p_items |-> p_items, all_items |-> all])
    ELSE LET validated_item == SanitizeItem(Head(items))
         IN  IF ~validated_item.ok THEN validated_item
             ELSE ProcessItems(Tail(items), Append(p_items, validated_item.v),
                               Append(all, validated_item.v))

\* The body of the outer loop for one page, given the flat list so far.
ProcessPage(page, all) ==
    LET got == PyGet(page, "bill_items", JList(<<>>))
    IN  IF ~got.ok THEN got
        ELSE
        LET it == PyIter(got.v)
        IN  IF ~it.ok THEN it
            ELSE
            LET done == ProcessItems(it.v, <<>>, all)
            IN  IF ~done.ok THEN done
                ELSE Ok([page |-> PageLineItems(
                                     PyStr(PyGet(page, "page_no", JStr("1")).v),
                                     done.v.p_items),
                         all_items |-> done.v.all_items])

\* The two lists are created and the outer loop is entered.
ReconcileStart(r) ==
    /\ pc[r] = "reconcile"
    /\ calls' = [calls EXCEPT ![r] = Append(@, "reconcile")]
    /\ all_items' = [all_items EXCEPT ![r] = <<>>]
    /\ pagewise_items' = [pagewise_items EXCEPT ![r] = <<>>]
    /\ LET got == PyGet(raw_data[r], "pagewise_line_items", JList(<<>>))
           it == IF got.ok THEN PyIter(got.v) ELSE got
       IN  IF it.ok
           THEN /\ pages_iter' = [pages_iter EXCEPT ![r] = it.v]
                /\ pc' = [pc EXCEPT ![r] = "pages"]
                /\ UNCHANGED response
           ELSE /\ Fail(r, it.exc)
                /\ UNCHANGED pages_iter
    /\ UNCHANGED <<image, raw_data>>

\* One turn of the outer loop with pagewise_items.insert(0, ...).
ReconcilePagePrepend(r) ==
    /\ pc[r] = "pages"
    /\ pages_iter[r] # <<>>
    /\ LET turn == ProcessPage(Head(pages_iter[r]), all_items[r])
       IN  IF turn.ok
           THEN /\ all_items' = [all_items EXCEPT ![r] = turn.v.all_items]
                /\ pagewise_items' = [pagewise_items EXCEPT ![r] = <<turn.v.page>> \o @]
                /\ pages_iter' = [pages_iter EXCEPT ![r] = Tail(@)]
                /\ UNCHANGED <<pc, response>>
           ELSE /\ Fail(r, turn.exc)
                /\ UNCHANGED <<all_items, pagewise_items, pages_iter>>
    /\ UNCHANGED <<image, raw_data, calls>>

\* One turn of the outer loop with the flat list one object for all requests.
ReconcilePageShared(r) ==
    /\ pc[r] = "pages"
    /\ pages_iter[r] # <<>>
    /\ LET turn == ProcessPage(Head(pages_iter[r]), all_items[r])
       IN  IF turn.ok
           THEN /\ all_items' = [q \in Requests |->
                                    IF q = r THEN turn.v.all_items
                                    ELSE all_items[q] \o turn.v.page.bill_items]
                /\ pagewise_items' = [pagewise_items EXCEPT ![r] = Append(@, turn.v.page)]
                /\ pages_iter' = [pages_iter EXCEPT ![r] = Tail(@)]
                /\ UNCHANGED <<pc, response>>
           ELSE /\ Fail(r, turn.exc)
                /\ UNCHANGED <<all_items, pagewise_items, pages_iter>>
    /\ UNCHANGED <<image, raw_data, calls>>

\* One turn of the outer loop.
ReconcilePage(r) ==
    /\ pc[r] = "pages"
    /\ pages_iter[r] # <<>>
    /\ LET turn == ProcessPage(Head(pages_iter[r]), all_items[r])
       IN  IF turn.ok
           THEN /\ all_items' = [all_items EXCEPT ![r] = turn.v.all_items]
                /\ pagewise_items' = [pagewise_items EXCEPT ![r] = Append(@, turn.v.page)]
                /\ pages_iter' = [pages_iter EXCEPT ![r] = Tail(@)]
                /\ UNCHANGED <<pc, response>>
           ELSE /\ Fail(r, turn.exc)
                /\ UNCHANGED <<all_items, pagewise_items, pages_iter>>
    /\ UNCHANGED <<image, raw_data, calls>>

\* len(pagewise_items) in place of len(all_items)
TotalCountOfPages(r) == Len(pagewise_items[r])

\* len(all_items)
TotalCount(r) == Len(all_items[r])

\* The grand total the model reported, when it reported one.
CalculatedTotalFromField(r) ==
    IF "total" \in DOMAIN raw_data[r].m
    THEN Round2(PyFloat(raw_data[r].m.total).v)
    ELSE Round2(SumAmounts(all_items[r]))

\* round(sum(item.item_amount for item in all_items), 2)
CalculatedTotal(r) == Round2(SumAmounts(all_items[r]))

\* The loop is over: the totals are computed and the envelope is built.
Respond(r) ==
    /\ pc[r] = "pages"
    /\ pages_iter[r] = <<>>
    /\ response' = [response EXCEPT ![r] =
          APIResponse(TRUE,
                      ExtractionData(pagewise_items[r], TotalCount(r), CalculatedTotal(r)),
                      PyNone)]
    /\ pc' = [pc EXCEPT ![r] = "done"]
    /\ UNCHANGED <<image, raw_data, pages_iter, all_items, pagewise_items, calls>>

Next ==
    \E r \in Requests :
        \/ DownloadOk(r)
        \/ DownloadFail(r)
        \/ ExtractOk(r)
        \/ ExtractFail(r)
        \/ ReconcileStart(r)
        \/ ReconcilePage(r)
        \/ Respond(r)

ConcNext ==
    \E r \in Requests :
        \/ DownloadOk(r)
        \/ DownloadFail(r)
        \/ ExtractScenario(r)
        \/ ExtractFail(r)
        \/ ReconcileStart(r)
        \/ ReconcilePage(r)
        \/ Respond(r)

Spec == Init /\ [][Next]_vars

ConcSpec == ConcInit /\ [][ConcNext]_vars

(***************************************************************************)
(* Vocabulary of the properties.                                           *)
(***************************************************************************)
Done(r) == pc[r] = "done"
Succeeded(r) == Done(r) /\ response[r].is_success
Rejected(r) == Done(r) /\ ~response[r].is_success

IsMap(v) == v.t = "map"
Has(v, key) == IsMap(v) /\ key \in DOMAIN v.m

\* The pages and the items the raw extraction lists.
InputPages(raw) ==
    IF Has(raw, "pagewise_line_items") /\ raw.m.pagewise_line_items.t = "list"
    THEN raw.m.pagewise_line_items.l ELSE <<>>
InputItems(page) ==
    IF Has(page, "bill_items") /\ page.m.bill_items.t = "list"
    THEN page.m.bill_items.l ELSE <<>>

RECURSIVE CountInputItems(_)
CountInputItems(pages) ==
    IF pages = <<>> THEN 0
    ELSE Len(InputItems(Head(pages))) + CountInputItems(Tail(pages))

RECURSIVE CountOutputItems(_)
CountOutputItems(pages) ==
    IF pages = <<>> THEN 0
    ELSE Len(Head(pages).bill_items) + CountOutputItems(Tail(pages))

RECURSIVE SumOutputAmounts(_)
SumOutputAmounts(pages) ==
    IF pages = <<>> THEN 0
    ELSE SumAmounts(Head(pages).bill_items) + SumOutputAmounts(Tail(pages))

\* What is left of a raw extraction when everything but the items'
\* item_amount is erased: per page, per item, the amount or its absence.
Absent == [t |-> "absent"]
AmountsOnly(raw) ==
    [j \in 1..Len(InputPages(raw)) |->
        [i \in 1..Len(InputItems(InputPages(raw)[j])) |->
            LET item == InputItems(InputPages(raw)[j])[i]
            IN  IF Has(item, "item_amount") THEN item.m.item_amount ELSE Absent]]

RECURSIVE SumOfAmountFields(_)
SumOfAmountFields(fields) ==
    IF fields = <<>> THEN 0
    ELSE (IF Head(fields) = Absent THEN 0 ELSE PyFloat(Head(fields)).v)
         + SumOfAmountFields(Tail(fields))

RECURSIVE SumOfAmountPages(_)
SumOfAmountPages(amounts) ==
    IF amounts = <<>> THEN 0
    ELSE SumOfAmountFields(Head(amounts)) + SumOfAmountPages(Tail(amounts))

\* A present value of the type the requested shape gives it.
IsNumber(v) == v.t \in {"int", "float"} \/ (v.t = "str" /\ v.s \in DOMAIN FloatLiterals)
NumberOrAbsent(item, key) == Has(item, key) => IsNumber(item.m[key])
NamedOrAbsent(item) == Has(item, "item_name") => item.m.item_name.t = "str"
ListOrAbsent(v, key) == Has(v, key) => v.m[key].t = "list"

\* Every value that is present has the requested type; keys may be absent.
WellTypedItem(item) ==
    /\ IsMap(item) /\ NamedOrAbsent(item)
    /\ \A key \in {"item_amount", "item_rate", "item_quantity"} : NumberOrAbsent(item, key)
WellTypedPage(page) ==
    /\ IsMap(page) /\ ListOrAbsent(page, "bill_items")
    /\ \A i \in 1..Len(InputItems(page)) : WellTypedItem(InputItems(page)[i])
WellTyped(raw) ==
    /\ IsMap(raw) /\ ListOrAbsent(raw, "pagewise_line_items")
    /\ \A j \in 1..Len(InputPages(raw)) : WellTypedPage(InputPages(raw)[j])

\* As WellTyped, but an item's three numeric fields may hold anything.
SoundButForNumbers(raw) ==
    /\ IsMap(raw) /\ ListOrAbsent(raw, "pagewise_line_items")
    /\ \A j \in 1..Len(InputPages(raw)) :
          LET page == InputPages(raw)[j]
          IN  /\ IsMap(page) /\ ListOrAbsent(page, "bill_items")
              /\ \A i \in 1..Len(InputItems(page)) :
                    IsMap(InputItems(page)[i]) /\ NamedOrAbsent(InputItems(page)[i])

UnparseableNumber(raw) ==
    \E j \in 1..Len(InputPages(raw)) :
        \E i \in 1..Len(InputItems(InputPages(raw)[j])) :
            \E key \in {"item_amount", "item_rate", "item_quantity"} :
                ~NumberOrAbsent(InputItems(InputPages(raw)[j])[i], key)

\* As WellTyped, but pagewise_line_items or a page's bill_items may hold
\* anything.
SoundButForLists(raw) ==
    /\ IsMap(raw)
    /\ \A j \in 1..Len(InputPages(raw)) :
          LET page == InputPages(raw)[j]
          IN  /\ IsMap(page)
              /\ \A i \in 1..Len(InputItems(page)) : WellTypedItem(InputItems(page)[i])

OutputPages(r) == response[r].data.pagewise_line_items

(***************************************************************************)
(* C1.  In every successful response reconciled_amount is the sum of       *)
(* item_amount over the items of the returned pages, rounded to 2 places,  *)
(* and it is a function of the items' item_amount fields alone: it is the  *)
(* rounded sum computed from the raw extraction with every other field     *)
(* erased.                                                                 *)
(***************************************************************************)
C1_ReconciledIsRoundedSum ==
    \A r \in Requests :
        Succeeded(r) =>
            /\ response[r].data.reconciled_amount
                  = Round2(SumOutputAmounts(OutputPages(r)))
            /\ response[r].data.reconciled_amount
                  = Round2(SumOfAmountPages(AmountsOnly(raw_data[r])))

\* Two pages carrying a 'total', a top-level 'total', amounts 10 and 0.125:
\* 10.125 is reported as 10.12, not as the total 999.0.
C1_Witness ==
    \E r \in Requests :
        /\ Succeeded(r)
        /\ Has(raw_data[r], "total")
        /\ Len(InputPages(raw_data[r])) = 2
        /\ \A j \in 1..2 : Has(InputPages(raw_data[r])[j], "total")
        /\ response[r].data.total_item_count = 2
        /\ response[r].data.reconciled_amount = 1012

(***************************************************************************)
(* C2.  In every successful response total_item_count is the number of     *)
(* items of the returned pages, which is the number of item entries of the *)
(* raw extraction over all its pages.                                      *)
(***************************************************************************)
C2_CountIsItemCount ==
    \A r \in Requests :
        Succeeded(r) =>
            /\ response[r].data.total_item_count = CountOutputItems(OutputPages(r))
            /\ response[r].data.total_item_count
                  = CountInputItems(InputPages(raw_data[r]))

\* One page of two items, one of them without any field.
C2_Witness ==
    \E r \in Requests :
        /\ Succeeded(r)
        /\ Len(InputPages(raw_data[r])) = 1
        /\ response[r].data.total_item_count = 2
        /\ \E i \in 1..2 : InputItems(InputPages(raw_data[r])[1])[i] = JMap(EmptyMap)

(***************************************************************************)
(* C3.  A raw extraction whose only defects are items' item_amount,        *)
(* item_rate or item_quantity values that are no numbers ends with         *)
(* success, every item kept and the defective field defaulted.             *)
(***************************************************************************)
C3_UnparseableFieldDefaulted ==
    \A r \in Requests :
        (Done(r) /\ raw_data[r] # NoValue /\ SoundButForNumbers(raw_data[r])) =>
            /\ response[r].is_success
            /\ response[r].data.total_item_count
                  = CountInputItems(InputPages(raw_data[r]))

\* The request with such a defect that has ended.
C3_Witness ==
    \E r \in Requests :
        /\ Done(r) /\ raw_data[r] # NoValue
        /\ SoundButForNumbers(raw_data[r]) /\ UnparseableNumber(raw_data[r])

(***************************************************************************)
(* C4.  Absent keys never fail a request.  With pagewise_line_items absent *)
(* the response is a success with no pages, count 0 and amount 0; a page   *)
(* with bill_items absent is returned with an empty item list, one page    *)
(* out per page in; and a raw extraction in which every present value is   *)
(* well typed succeeds whatever keys it lacks.                             *)
(***************************************************************************)
C4_AbsentListsAreEmpty ==
    \A r \in Requests :
        (Done(r) /\ raw_data[r] # NoValue) =>
            /\ (IsMap(raw_data[r]) /\ ~Has(raw_data[r], "pagewise_line_items")) =>
                  /\ response[r].is_success
                  /\ response[r].data.pagewise_line_items = <<>>
                  /\ response[r].data.total_item_count = 0
                  /\ response[r].data.reconciled_amount = 0
            /\ WellTyped(raw_data[r]) => response[r].is_success
            /\ response[r].is_success =>
                  /\ Len(OutputPages(r)) = Len(InputPages(raw_data[r]))
                  /\ \A j \in 1..Len(InputPages(raw_data[r])) :
                        ~Has(InputPages(raw_data[r])[j], "bill_items")
                            => OutputPages(r)[j].bill_items = <<>>

\* A page without bill_items followed by a page with an item.
C4_Witness ==
    \E r \in Requests :
        /\ Succeeded(r)
        /\ Len(InputPages(raw_data[r])) = 2
        /\ ~Has(InputPages(raw_data[r])[1], "bill_items")
        /\ OutputPages(r)[1].bill_items = <<>>
        /\ Len(OutputPages(r)[2].bill_items) = 1

(***************************************************************************)
(* C5.  A request that has not ended has returned nothing, and a request   *)
(* that has ended, at whichever stage, has returned an envelope in which   *)
(* exactly one of data and error is populated: data on success, error on   *)
(* failure.  No exception raised under the try block leaves the handler.   *)
(***************************************************************************)
C5_EnvelopeAlways ==
    \A r \in Requests :
        /\ ~Done(r) => response[r] = NoResponse
        /\ Done(r) =>
              /\ DOMAIN response[r] = {"is_success", "data", "error"}
              /\ response[r].is_success \in BOOLEAN
              /\ response[r].is_success =>
                    (response[r].data.t = "ExtractionData" /\ response[r].error = PyNone)
              /\ ~response[r].is_success =>
                    (response[r].error.t = "str" /\ response[r].data = PyNone)

\* An exception that is no HTTPException, raised while sanitizing.
C5_Witness ==
    \E r \in Requests :
        /\ Rejected(r)
        /\ calls[r] = <<"resolve", "extract", "reconcile">>
        /\ response[r].error = PyText("could not convert string to float: 'N/A'")

(***************************************************************************)
(* C6.  The stages of a request run in the order resolve, extract,         *)
(* reconcile, each at most once.  After a failed download the model was    *)
(* not called, after a failed extraction nothing was reconciled, and in    *)
(* both cases the envelope has success false and a non-empty error.        *)
(***************************************************************************)
StageOrder == <<"resolve", "extract", "reconcile">>

C6_StagesInOrder ==
    \A r \in Requests :
        /\ Len(calls[r]) <= Len(StageOrder)
        /\ calls[r] = SubSeq(StageOrder, 1, Len(calls[r]))
        /\ (image[r] = NoValue) => Len(calls[r]) <= 1
        /\ (raw_data[r] = NoValue) =>
              /\ Len(calls[r]) <= 2
              /\ all_items[r] = <<>> /\ pagewise_items[r] = <<>>
        /\ (Done(r) /\ raw_data[r] = NoValue) =>
              /\ ~response[r].is_success
              /\ response[r].error.t = "str" /\ response[r].error.s # ""

\* The model call failed after a download that succeeded.
C6_Witness ==
    \E r \in Requests :
        /\ Done(r)
        /\ image[r] # NoValue /\ raw_data[r] = NoValue
        /\ calls[r] = <<"resolve", "extract">>
        /\ response[r] = APIResponse(FALSE, PyNone,
                                     PyText("Failed to process image with AI model."))

(***************************************************************************)
(* C7.  In every successful response an item whose field is absent from    *)
(* the raw extraction carries the default in its place (rate 0.0, quantity *)
(* 1.0, amount 0.0, name "Unknown"), a page whose page_no is absent has    *)
(* page_no "1", every page returns as many items as it listed, all of     *)
(* them counted and summed, and a raw extraction that only lacks keys      *)
(* succeeds.                                                               *)
(***************************************************************************)
C7_AbsentFieldsDefaulted ==
    \A r \in Requests :
        /\ (Done(r) /\ raw_data[r] # NoValue /\ WellTyped(raw_data[r])) => Succeeded(r)
        /\ Succeeded(r) =>
              /\ response[r].data.total_item_count
                    = CountInputItems(InputPages(raw_data[r]))
              /\ response[r].data.reconciled_amount
                    = Round2(SumOutputAmounts(OutputPages(r)))
              /\ \A j \in 1..Len(InputPages(raw_data[r])) :
                  LET page == InputPages(raw_data[r])[j]
                      out == OutputPages(r)[j]
                  IN  /\ ~Has(page, "page_no") => out.page_no = "1"
                      /\ Len(out.bill_items) = Len(InputItems(page))
                      /\ \A i \in 1..Len(InputItems(page)) :
                            LET item == InputItems(page)[i]
                                kept == out.bill_items[i]
                            IN  /\ ~Has(item, "item_rate") => kept.item_rate = 0
                                /\ ~Has(item, "item_quantity") => kept.item_quantity = 8
                                /\ ~Has(item, "item_amount") => kept.item_amount = 0
                                /\ ~Has(item, "item_name") => kept.item_name = "Unknown"

\* A page without page_no, then a page with an item without any field and
\* Scenario B's item: both count, and the amount is 0.0 + 10.0.
C7_Witness ==
    \E r \in Requests :
        /\ Succeeded(r)
        /\ Len(InputPages(raw_data[r])) = 2
        /\ ~Has(InputPages(raw_data[r])[1], "page_no")
        /\ OutputPages(r)[2].bill_items
              = << [item_name |-> "Unknown", item_amount |-> 0,
                    item_rate |-> 0, item_quantity |-> 8],
                   [item_name |-> "Bandage", item_amount |-> 80,
                    item_rate |-> 0, item_quantity |-> 8] >>
        /\ response[r].data.total_item_count = 2
        /\ response[r].data.reconciled_amount = 1000

(***************************************************************************)
(* C8.  In every successful response there is one page out per page in,    *)
(* in the same order, and the i-th item of the j-th page out is the        *)
(* sanitized i-th item of the j-th page in.                                *)
(***************************************************************************)
C8_OrderPreserved ==
    \A r \in Requests :
        Succeeded(r) =>
            /\ Len(OutputPages(r)) = Len(InputPages(raw_data[r]))
            /\ \A j \in 1..Len(InputPages(raw_data[r])) :
                  LET page == InputPages(raw_data[r])[j]
                      out == OutputPages(r)[j]
                  IN  /\ out.page_no = PyStr(PyGet(page, "page_no", JStr("1")).v)
                      /\ Len(out.bill_items) = Len(InputItems(page))
                      /\ \A i \in 1..Len(InputItems(page)) :
                            out.bill_items[i] = SanitizeItem(InputItems(page)[i]).v

\* Two pages with different items.
C8_Witness ==
    \E r \in Requests :
        /\ Succeeded(r)
        /\ Len(OutputPages(r)) = 2
        /\ Len(OutputPages(r)[1].bill_items) = 1
        /\ Len(OutputPages(r)[2].bill_items) = 1
        /\ OutputPages(r)[1].bill_items[1].item_name = "Paracetamol"
        /\ OutputPages(r)[2].bill_items[1].item_name = "Discount"

(***************************************************************************)
(* C9.  With a mapping root, a pagewise_line_items or a page's bill_items  *)
(* that is present and no sequence is treated as empty: the request        *)
(* succeeds, with no pages, or with an empty item list for that page.      *)
(***************************************************************************)
C9_NonSequenceIsEmpty ==
    \A r \in Requests :
        (Done(r) /\ raw_data[r] # NoValue /\ SoundButForLists(raw_data[r])) =>
            /\ response[r].is_success
            /\ (Has(raw_data[r], "pagewise_line_items")
                /\ raw_data[r].m.pagewise_line_items.t # "list")
                  => response[r].data.pagewise_line_items = <<>>
            /\ \A j \in 1..Len(InputPages(raw_data[r])) :
                  (Has(InputPages(raw_data[r])[j], "bill_items")
                   /\ InputPages(raw_data[r])[j].m.bill_items.t # "list")
                      => OutputPages(r)[j].bill_items = <<>>

\* A request on such a raw extraction that has ended.
C9_Witness ==
    \E r \in Requests :
        /\ Done(r) /\ raw_data[r] # NoValue /\ SoundButForLists(raw_data[r])
        /\ Has(raw_data[r], "pagewise_line_items")
        /\ raw_data[r].m.pagewise_line_items.t # "list"

(***************************************************************************)
(* C10.  Whatever the interleaving of the requests' steps, the envelope a  *)
(* request returns is the one it returns when it runs alone on what its    *)
(* own download and its own model call produced.                           *)
(***************************************************************************)
RECURSIVE AlonePages(_, _, _)
\* The outer loop run to its end on fresh lists.
AlonePages(pages, pagewise, all) ==
    IF pages = <<>>
    THEN APIResponse(TRUE,
                     ExtractionData(pagewise, Len(all), Round2(SumAmounts(all))),
                     PyNone)
    ELSE LET turn == ProcessPage(Head(pages), all)
         IN  IF ~turn.ok THEN Handle(turn.exc)
             ELSE AlonePages(Tail(pages), Append(pagewise, turn.v.page), turn.v.all_items)

ReconciledAlone(raw) ==
    LET got == PyGet(raw, "pagewise_line_items", JList(<<>>))
        it == IF got.ok THEN PyIter(got.v) ELSE got
    IN  IF ~it.ok THEN Handle(it.exc) ELSE AlonePages(it.v, <<>>, <<>>)

AloneEnvelopes(r) ==
    IF image[r] = NoValue
    THEN {APIResponse(FALSE, PyNone, PyText("Failed to download image: " \o cause))
              : cause \in DownloadFailures}
    ELSE IF raw_data[r] = NoValue
         THEN {APIResponse(FALSE, PyNone, PyText("Failed to process image with AI model."))}
         ELSE {ReconciledAlone(raw_data[r])}

C10_RequestsIndependent ==
    \A r \in Requests : Done(r) => response[r] \in AloneEnvelopes(r)

\* A request has been answered while another one, on another raw
\* extraction, is in the middle of its loop.
C10_Witness ==
    \E r, q \in Requests :
        /\ r # q
        /\ Succeeded(r) /\ response[r].data.total_item_count = 1
        /\ pc[q] = "pages" /\ pages_iter[q] # <<>> /\ all_items[q] # <<>>
        /\ raw_data[q] # raw_data[r]
====
